---- MODULE Spec2Model ----
(***************************************************************************)
(* A model of eett_scraper.py: the EETTScraper search session driver       *)
(* (search_municipality, _prepare_search_data, _scrape_all_pages), the     *)
(* HTML result parsing (_parse_results, _parse_table_results,              *)
(* _map_table_headers, _validate_header_map, _extract_antenna_data), the   *)
(* pagination detector (_has_next_page), the two writers and main().       *)
(*                                                                         *)
(* Representation of the data the code handles:                            *)
(*  - a Python str whose characters matter (municipality names, link       *)
(*    texts) is a sequence of one-character strings;                       *)
(*  - a text that the code only searches for fixed fragments (a header     *)
(*    cell, a title, an onclick attribute) is a sequence of tokens, the    *)
(*    tokens of a text being separated by one blank; the Greek fragments   *)
(*    of the source are written in Latin letters (see the definitions      *)
(*    KOD .. EPOMENI), upper and lower case kept;                          *)
(*  - an opaque str (a form value, a field name) is a TLA+ string;         *)
(*  - a Python dict is a sequence of <<key, value>> pairs in insertion     *)
(*    order, keys unique;                                                  *)
(*  - a parsed document is a record [tables, pagination]: the <table>      *)
(*    elements in document order, each the sequence of its <tr> rows, each *)
(*    row the sequence of its <th>/<td> cells, and the first               *)
(*    <ul class="pagination"> (or None), the sequence of its <li> items,   *)
(*    each with its attributes and its <a> links in document order.        *)
(***************************************************************************)
EXTENDS Integers, Sequences, FiniteSets, TLC

VARIABLES
    \* ---- the inputs of one run ----
    caller,              \* "main" (the CLI), "list" (the CLI with --list) or
                         \* "library" (a direct user of the API)
    debug,               \* EETTScraper.debug
    max_pages,           \* the max_pages argument: None or an integer
    municipality_name,   \* the municipality_name argument
    search_page,         \* what the server serves at anazhthsh.php
    site,                \* what the server serves at getData.php, by startPage
    \* ---- the state of search_municipality / _scrape_all_pages ----
    pc,                  \* the position of the flow of control
    municipality_value,  \* the resolved form value (or None)
    search_data,         \* the base form fields (or None)
    page_num,            \* _scrape_all_pages.page_num
    all_antennas,        \* _scrape_all_pages.all_antennas
    result,              \* what search_municipality returned
    \* ---- what the run did to the outside world ----
    gets,                \* the number of GETs of the search page issued
    posts,               \* the payloads POSTed to getData.php, in order
    post_failed,         \* whether a POST failed at the transport level
    sleeps,              \* the number of time.sleep(1) calls
    files,               \* the files opened for writing
    writer_calls,        \* the writer calls made, with the data passed
    \* ---- the pure functions, applied to drawn inputs ----
    header_row,          \* a header row: the texts of its cells
    header_map,          \* _map_table_headers(header_row)
    row_cells,           \* a data row: its cells
    row_out,             \* what the row loop of _parse_table_results did
    doc,                 \* a parsed response (soup): tables, pagination
    doc_page,            \* the current_page_num handed to _has_next_page
    doc_antennas,        \* what _parse_results(doc) returned
    doc_next             \* how _has_next_page(doc, doc_page) ended

vars == << caller, debug, max_pages, municipality_name, search_page, site,
           pc, municipality_value, search_data, page_num, all_antennas, result,
           gets, posts, post_failed, sleeps, files, writer_calls,
           header_row, header_map, row_cells, row_out,
           doc, doc_page, doc_antennas, doc_next >>

----------------------------------------------------------------------------
(* Bounds of the model *)

\* the server's result set has at most MaxPage pages; a request beyond
\* them is answered with a page without results
MaxPage == 3

\* a drawn header row has at most MaxCols cells
MaxCols == 4

\* a drawn HeaderMap refers to the columns 0 .. MaxCells - 1, and a drawn
\* data row has at most MaxCells + 1 cells
MaxCells == 6

\* a drawn document has at most MaxTables tables
MaxTables == 3

\* a drawn pagination control has at most MaxItems items
MaxItems == 2

----------------------------------------------------------------------------
(* Python values *)

None == "None"

\* a value that may be None, where the value is not a str: << >> is None and
\* << x >> is x
Nothing == << >>
Some(x) == << x >>
The(o) == o[1]

RECURSIVE Concat(_)
Concat(ss) == IF ss = << >> THEN << >> ELSE Head(ss) \o Concat(Tail(ss))

Max(S) == CHOOSE m \in S : \A x \in S : x <= m

\* dict: key in d
DictHas(d, k) == \E i \in DOMAIN d : d[i][1] = k

\* dict: d[k]
DictGet(d, k) == d[CHOOSE i \in DOMAIN d : d[i][1] = k][2]

\* dict: d[k] = v (an existing key keeps its place)
DictSet(d, k, v) ==
    IF DictHas(d, k)
    THEN [ i \in DOMAIN d |-> IF d[i][1] = k THEN << k, v >> ELSE d[i] ]
    ELSE Append(d, << k, v >>)

DictKeys(d) == { d[i][1] : i \in DOMAIN d }

\* an element's attribute: tag.get(name, default); attrs is a function
\* from the attribute names present to their values
AttrGet(attrs, name, default) ==
    IF name \in DOMAIN attrs THEN attrs[name] ELSE default

\* str.lower(), on the letters of the model's alphabet
\* (Χ -> χ and Α -> α are written X -> x and A -> a)
LowerChar(c) ==
    CASE c = "X" -> "x"
      [] c = "A" -> "a"
      [] OTHER -> c

Lower(s) == [ i \in DOMAIN s |-> LowerChar(s[i]) ]

\* a in b, for two str
IsSubstring(a, b) ==
    \E k \in 0 .. (Len(b) - Len(a)) :
        \A i \in 1 .. Len(a) : b[k + i] = a[i]

Digits == << "0", "1", "2", "3", "4", "5", "6", "7", "8", "9" >>

IsDigitChar(c) == \E d \in DOMAIN Digits : Digits[d] = c

DigitValue(c) == (CHOOSE d \in DOMAIN Digits : Digits[d] = c) - 1

\* a character that is a digit and not a decimal one: str.isdigit() holds
\* of it, int() raises ValueError on it and \d does not match it
SUPERSCRIPT_TWO == "^2"      \* '\u00b2'

\* str.isdigit()
IsDigit(s) ==
    /\ s # << >>
    /\ \A i \in DOMAIN s : IsDigitChar(s[i]) \/ s[i] = SUPERSCRIPT_TWO

\* int(s) returns, for a str of digits
IsDecimal(s) == s # << >> /\ \A i \in DOMAIN s : IsDigitChar(s[i])

\* int(s), for a str of decimal digits
RECURSIVE PyInt(_)
PyInt(s) ==
    IF s = << >> THEN 0
    ELSE 10 * PyInt(SubSeq(s, 1, Len(s) - 1)) + DigitValue(s[Len(s)])

\* white space around a text
WS == " "

\* get_text(strip=True) of an element with one text node
RECURSIVE Strip(_)
Strip(text) ==
    IF text = << >> THEN text
    ELSE IF Head(text) = WS THEN Strip(Tail(text))
    ELSE IF text[Len(text)] = WS THEN Strip(SubSeq(text, 1, Len(text) - 1))
    ELSE text

\* fragment in text, for a one-token fragment
Contains(text, fragment) == \E i \in DOMAIN text : text[i] = fragment

\* fragment in text, for the two-token fragment "a b"
ContainsPair(text, a, b) ==
    \E i \in 1 .. (Len(text) - 1) : text[i] = a /\ text[i + 1] = b

----------------------------------------------------------------------------
(* Header Mapper, Row Extractor, Table Locator *)

\* the label fragments of _map_table_headers
KOD == "Kod."                \* 'Κωδ.'
THESIS_LOWER == "thesis"     \* 'θέσης'
THESIS_UPPER == "Thesis"     \* 'Θέσης', as in 'Κωδ. Θέσης'
KATIGORIA == "Katigoria"     \* 'Κατηγορία'
ETAIRIA == "Etairia"         \* 'Εταιρία'
DIEFTHYNSI == "Diefthynsi"   \* 'Διεύθυνση'
DIMOS == "Dimos"             \* 'Δήμος'

Fields == { "sequence", "position_code", "category", "company", "address",
            "municipality" }

\* the if/elif chain of _map_table_headers: the field a header text sets,
\* or None
HeaderField(text) ==
    IF Contains(text, KOD) /\ Contains(text, THESIS_LOWER) THEN "position_code"
    ELSE IF Contains(text, KATIGORIA) THEN "category"
    ELSE IF Contains(text, ETAIRIA) THEN "company"
    ELSE IF Contains(text, DIEFTHYNSI) THEN "address"
    ELSE IF Contains(text, DIMOS) THEN "municipality"
    ELSE IF ContainsPair(text, KOD, THESIS_UPPER) THEN "sequence"
    ELSE None

\* header_map[field] = i
MapPut(m, field, i) ==
    [ f \in (DOMAIN m) \cup { field } |-> IF f = field THEN i ELSE m[f] ]

\* the loop of _map_table_headers from the cell of index i (0-based) on
RECURSIVE MapHeadersFrom(_, _, _)
MapHeadersFrom(header_cells, i, m) ==
    IF i >= Len(header_cells) THEN m
    ELSE LET field == HeaderField(Strip(header_cells[i + 1].text))
         IN  MapHeadersFrom(header_cells, i + 1,
                            IF field = None THEN m ELSE MapPut(m, field, i))

\* header_row.find_all(['th', 'td']) is every cell of the row
_map_table_headers(header_row_) == MapHeadersFrom(header_row_, 0, << >>)

required_headers == { "position_code", "company", "address", "municipality" }

\* mutant: municipality is not required
_validate_header_map_lax(m) ==
    (required_headers \ { "municipality" }) \subseteq DOMAIN m

_validate_header_map(m) == required_headers \subseteq DOMAIN m

\* what reading cells[i] gives: the cell's stripped text, or IndexError
IndexError == << "IndexError" >>

CellText(cells, i) ==
    IF i + 1 \in DOMAIN cells THEN Strip(cells[i + 1].text) ELSE IndexError

\* the indices _extract_antenna_data reads
ReadIndices(m) == { m[f] : f \in DOMAIN m }

_extract_antenna_data(cells, m) ==
    [ sequence      |-> IF "sequence" \in DOMAIN m
                        THEN CellText(cells, m["sequence"]) ELSE << >>,
      position_code |-> CellText(cells, m["position_code"]),
      category      |-> IF "category" \in DOMAIN m
                        THEN CellText(cells, m["category"]) ELSE << >>,
      company       |-> CellText(cells, m["company"]),
      address       |-> CellText(cells, m["address"]),
      municipality  |-> CellText(cells, m["municipality"]) ]

\* row.find_all('td'): the data cells of a row, header cells left out
TdCells(row) == SelectSeq(row, LAMBDA c : c.tag = "td")

\* mutant: a row as long as the largest index is taken
RowGuardOffByOne(cells, m) == Len(cells) >= Max(ReadIndices(m))

\* line 274: len(cells) > max(header_map.values())
RowGuard(cells, m) == Len(cells) > Max(ReadIndices(m))

\* one iteration of the row loop of _parse_table_results: the records it
\* appends
ParseRow(row, m) ==
    LET cells == TdCells(row)
    IN  IF RowGuard(cells, m)
        THEN << _extract_antenna_data(cells, m) >>
        ELSE << >>

RECURSIVE ParseRowsFrom(_, _, _)
ParseRowsFrom(rows, i, m) ==
    IF i > Len(rows) THEN << >>
    ELSE ParseRow(rows[i], m) \o ParseRowsFrom(rows, i + 1, m)

_parse_table_results(table) ==
    IF Len(table) < 2 THEN << >>
    ELSE LET m == _map_table_headers(table[1])
         IN  IF ~ _validate_header_map(m) THEN << >>
             ELSE ParseRowsFrom(table, 2, m)

\* line 252: if antennas
HasAntennas(antennas) == antennas # << >>

\* the loop of _parse_results from the table of index i on
RECURSIVE ParseTablesFrom(_, _)
ParseTablesFrom(tables, i) ==
    IF i > Len(tables) THEN << >>
    ELSE LET antennas == _parse_table_results(tables[i])
         IN  IF HasAntennas(antennas) THEN antennas
             ELSE ParseTablesFrom(tables, i + 1)

_parse_results(soup) == ParseTablesFrom(soup.tables, 1)

----------------------------------------------------------------------------
(* Pagination Detector *)

EPOMENI == "Epomeni"         \* 'Επόμενη'
NEXT_EN == "Next"            \* 'Next'
START_PAGE == "startPage.value="
QUOTE == "'"

\* the digits matched by (\d+) from position i of the onclick text
RECURSIVE DigitRun(_, _)
DigitRun(text, i) ==
    IF i \in DOMAIN text /\ IsDigitChar(text[i])
    THEN << text[i] >> \o DigitRun(text, i + 1)
    ELSE << >>

\* the match of  startPage\.value='?(\d+)'?  that starts at token p: its
\* group 1, or << >> when there is no match at p
StartPageGroupAt(text, p) ==
    IF text[p] # START_PAGE THEN << >>
    ELSE IF p + 1 \in DOMAIN text /\ text[p + 1] = QUOTE
         THEN DigitRun(text, p + 2)
         ELSE DigitRun(text, p + 1)

\* re.search(...): group 1 of the leftmost match, or << >> for None
StartPageSearch(text) ==
    LET hits == { p \in DOMAIN text : StartPageGroupAt(text, p) # << >> }
    IN  IF hits = { } THEN << >>
        ELSE StartPageGroupAt(text, CHOOSE p \in hits : \A q \in hits : p <= q)

ValueError == "ValueError"

\* li.find('a'): the first <a> of the item, or None
FindA(li) == IF li.links = << >> THEN Nothing ELSE Some(li.links[1])

\* line 361: the item is titled "next" and is not disabled
NextEnabled(title, classes) ==
    /\ Contains(title, EPOMENI) \/ Contains(title, NEXT_EN)
    /\ "disabled" \notin classes

\* the body of the loop of _has_next_page for one <li>: "True" when it
\* returns True, "ValueError" when int(text) raises, "continue" otherwise
LiOutcome(li, current_page_num) ==
    LET title   == AttrGet(li.attrs, "title", << >>)
        classes == AttrGet(li.attrs, "class", { })
        a_tag   == FindA(li)
    IN  IF NextEnabled(title, classes) THEN "True"
        ELSE IF a_tag = Nothing THEN "continue"
        ELSE LET text    == Strip(The(a_tag).text)
                 onclick == AttrGet(The(a_tag).attrs, "onclick", << >>)
                 match   == StartPageSearch(onclick)
             IN  IF IsDigit(text) /\ ~ IsDecimal(text) THEN ValueError
                 ELSE IF IsDigit(text) /\ PyInt(text) > current_page_num
                 THEN "True"
                 ELSE IF match # << >> /\ PyInt(match) > current_page_num
                 THEN "True"
                 ELSE "continue"

\* the loop of _has_next_page from the item of index i on
RECURSIVE HasNextFrom(_, _, _)
HasNextFrom(items, i, current_page_num) ==
    IF i > Len(items) THEN "False"
    ELSE LET outcome == LiOutcome(items[i], current_page_num)
         IN  IF outcome = "continue"
             THEN HasNextFrom(items, i + 1, current_page_num)
             ELSE outcome

\* how _has_next_page ends: it returns "True" or "False", or int(text)
\* raises ValueError
_has_next_page(soup, current_page_num) ==
    IF soup.pagination = Nothing THEN "False"
    ELSE HasNextFrom(The(soup.pagination), 1, current_page_num)

----------------------------------------------------------------------------
(* What the server serves *)

Th(text) == [ tag |-> "th", text |-> text ]
Td(text) == [ tag |-> "td", text |-> text ]

\* a data row of n <td> cells, the cell of column c holding "<id> c<c>"
DataRow(id, n) == [ c \in 1 .. n |-> Td(<< id, "c" \o ToString(c - 1) >>) ]

\* the header row of the results table of the site, all six columns
FullHeader ==
    << Th(<< "A/A" >>), Th(<< WS, KOD, THESIS_LOWER, WS >>), Th(<< KATIGORIA >>),
       Th(<< ETAIRIA >>), Th(<< DIEFTHYNSI >>), Th(<< DIMOS >>) >>

\* a header row with the four required columns only, in another order
ShortHeader ==
    << Td(<< DIMOS >>), Td(<< ETAIRIA >>), Td(<< KOD, THESIS_LOWER >>),
       Td(<< DIEFTHYNSI >>) >>

\* a navigation table: two rows, no header label
LayoutTable == << << Td(<< "Menu" >>) >>, << Td(<< "Home" >>) >> >>

\* a results table without any data row that can be extracted
EmptyResultsTable == << FullHeader, DataRow("e1", 3) >>

\* an <li> with one <a>, one without any, and one with several
Li(attrs, a) == [ attrs |-> attrs, links |-> << a >> ]
LiNoA(attrs) == [ attrs |-> attrs, links |-> << >> ]
LiOfLinks(attrs, links) == [ attrs |-> attrs, links |-> links ]
A(text, attrs) == [ text |-> text, attrs |-> attrs ]
NoAttrs == << >>

\* a page without results: no table with a valid header and data
DocEmpty ==
    [ tables     |-> << LayoutTable, EmptyResultsTable >>,
      pagination |-> Some(<< Li(NoAttrs, A(<< "2" >>, NoAttrs)),
                             Li([ title |-> << EPOMENI >> ],
                                A(<< ">" >>, NoAttrs)) >>) ]

\* a page of two records (a short row between them) whose pagination
\* control has an enabled "next" item
DocNext ==
    [ tables     |-> << LayoutTable,
                        << FullHeader, DataRow("n1", 6), DataRow("n2", 5),
                           DataRow("n3", 7) >> >>,
      pagination |-> Some(<< Li([ class |-> { "active" } ],
                                A(<< "1" >>, NoAttrs)),
                             Li([ title |-> << EPOMENI, "selida" >> ],
                                A(<< ">" >>, NoAttrs)) >>) ]

\* a page of one record whose pagination control links pages 1 and 2 and
\* has its "next" item disabled: a further page exists only from page 1
DocLinks12 ==
    [ tables     |-> << << FullHeader, DataRow("k1", 6) >> >>,
      pagination |-> Some(<< Li(NoAttrs, A(<< WS, "1" >>, NoAttrs)),
                             Li(NoAttrs,
                                A(<< ">", ">" >>,
                                  [ onclick |-> << "document.f.", START_PAGE,
                                                   QUOTE, "2", QUOTE,
                                                   ";submit()" >> ])),
                             LiNoA([ title |-> << NEXT_EN >>,
                                     class |-> { "disabled" } ]) >>) ]

\* a page of two records, the whole result set: no pagination control
DocLast ==
    [ tables     |-> << EmptyResultsTable,
                        << ShortHeader, DataRow("z1", 4),
                           << Th(<< "z2" >>) >> \o DataRow("z2", 4) >> >>,
      pagination |-> Nothing ]

\* a page of one record whose pagination control holds one link, its text
\* a superscript digit: the detector raises on it
DocOdd ==
    [ tables     |-> << << FullHeader, DataRow("o1", 6) >> >>,
      pagination |-> Some(<< Li(NoAttrs, A(<< SUPERSCRIPT_TWO >>, NoAttrs)) >>) ]

Docs == { DocEmpty, DocNext, DocLinks12, DocLast, DocOdd }

\* the result pages of the server, by startPage
Sites == [ 1 .. MaxPage -> Docs ]

\* the page the server answers a request for startPage = n with
Served(pages, n) == IF n \in DOMAIN pages THEN pages[n] ELSE DocEmpty

\* two sites: one that never ends, one that ends at page 2
FewSites == { [ n \in 1 .. MaxPage |-> DocNext ],
              [ n \in 1 .. MaxPage |-> DocLinks12 ] }

Option(attrs, text) == [ attrs |-> attrs, text |-> text ]

\* the <option> elements of <select name="municipality">
OptionsA ==
    << Option([ value |-> "" ], << "-", "-" >>),
       Option([ value |-> "12" ], << WS, "X", "a", WS >>),
       Option([ value |-> "7" ], << "A" >>),
       Option(NoAttrs, << "b" >>) >>

OptionsB ==
    << Option([ value |-> "7" ], << "A", "x" >>),
       Option([ value |-> "8" ], << "A", "x" >>),
       Option([ value |-> "9" ], << >>) >>

\* the <input type="hidden"> elements of the search page, by their attributes
HiddenToken == << [ name |-> "token", value |-> "t1" ] >>

HiddenPaging ==
    << [ name |-> "startPage", value |-> "0" ],
       [ name |-> "myAction", value |-> "" ] >>

HiddenOdd ==
    << [ name |-> "municipality", value |-> "0" ],
       [ value |-> "v" ],
       [ name |-> "", value |-> "w" ],
       [ name |-> "sid" ] >>

HiddenTwice ==
    << [ name |-> "token", value |-> "t1" ],
       [ name |-> "token", value |-> "t2" ] >>

SearchPage(options, hidden) == [ options |-> options, hidden |-> hidden ]

\* options = Nothing: the page has no <select name="municipality">
SearchPages ==
    { SearchPage(o, h) :
        o \in { Nothing, Some(OptionsA), Some(OptionsB) },
        h \in { << >>, HiddenToken, HiddenPaging, HiddenOdd, HiddenTwice } }

FewSearchPages == { SearchPage(Some(OptionsA), HiddenToken) }

\* the names asked for
Names == { << "x", "a" >>, << "X" >>, << "z", "A", "X", "z" >>, << "b" >>, << >> }

FewNames == { << "x", "a" >>, << "b" >>, << >> }

\* max_pages: None, or an int
MaxPagesValues == { Nothing } \cup { Some(m) : m \in 0 .. MaxPage }

----------------------------------------------------------------------------
(* Search Session Driver *)

\* the loop of get_municipality_options from the option of index i on
RECURSIVE OptionsFrom(_, _, _)
OptionsFrom(option_elements, i, options) ==
    IF i > Len(option_elements) THEN options
    ELSE LET value == AttrGet(option_elements[i].attrs, "value", "")
             text  == Strip(option_elements[i].text)
         IN  OptionsFrom(option_elements, i + 1,
                         IF value # "" /\ text # << >>
                         THEN DictSet(options, text, value) ELSE options)

\* get_municipality_options, given whether the GET succeeded
get_municipality_options(ok, page) ==
    IF ~ ok \/ page.options = Nothing THEN << >>
    ELSE OptionsFrom(The(page.options), 1, << >>)

NameMatches(name_asked, name) ==
    \/ IsSubstring(Lower(name_asked), Lower(name))
    \/ IsSubstring(Lower(name), Lower(name_asked))

\* mutant: without a match the first entry is taken
_find_municipality_value_first(name_asked, municipality_options) ==
    LET hits == { i \in DOMAIN municipality_options :
                    NameMatches(name_asked, municipality_options[i][1]) }
    IN  IF municipality_options = << >> THEN None
        ELSE IF hits = { } THEN municipality_options[1][2]
        ELSE municipality_options[CHOOSE i \in hits : \A j \in hits : i <= j][2]

_find_municipality_value(name_asked, municipality_options) ==
    LET hits == { i \in DOMAIN municipality_options :
                    NameMatches(name_asked, municipality_options[i][1]) }
    IN  IF hits = { } THEN None
        ELSE municipality_options[CHOOSE i \in hits : \A j \in hits : i <= j][2]

\* the loop of _prepare_search_data from the hidden input of index i on
RECURSIVE HiddenFrom(_, _, _)
HiddenFrom(hidden_inputs, i, data) ==
    IF i > Len(hidden_inputs) THEN data
    ELSE LET name  == AttrGet(hidden_inputs[i], "name", None)
             value == AttrGet(hidden_inputs[i], "value", "")
         IN  HiddenFrom(hidden_inputs, i + 1,
                        IF name # None /\ name # ""
                        THEN DictSet(data, name, value) ELSE data)

\* mutant: the hidden fields are not copied
_prepare_search_data_bare(value, page) ==
    << << "address", "" >>, << "municipality", value >>, << "siteId", "" >> >>

\* _prepare_search_data, after a GET that succeeded
_prepare_search_data(value, page) ==
    HiddenFrom(page.hidden, 1,
               << << "address", "" >>, << "municipality", value >>,
                  << "siteId", "" >> >>)

\* line 182
MyAction(n) == IF n = 1 THEN "search" ELSE "page"

\* lines 180-182; startPage is the int page_num, form-encoded by str()
CurrentSearchData(data, n) ==
    DictSet(DictSet(data, "startPage", ToString(n)), "myAction", MyAction(n))

\* line 175: max_pages and page_num > max_pages
MaxPagesReached(m, n) == m # Nothing /\ The(m) # 0 /\ n > The(m)

\* mutant: an empty page does not stop the loop
PageIsEmptyNever(antennas_on_page) == FALSE

\* line 196: not antennas_on_page
PageIsEmpty(antennas_on_page) == antennas_on_page = << >>

\* line 204: all_antennas.extend(antennas_on_page)
Extend(antennas, antennas_on_page) == antennas \o antennas_on_page

\* mutant: a failed request discards what was accumulated
ResultAfterFailureNone(antennas) == << >>

\* lines 186-187, 217-218: a failed request breaks the loop, and
\* all_antennas is returned
ResultAfterFailure(antennas) == antennas

\* mutant: a debug file for every page
SavesDebugAlways(d, n) == d

\* line 190: self.debug and page_num <= 2
SavesDebug(d, n) == d /\ n <= 2

\* the file _save_debug_response opens
DebugFile(n) == "debug_response_page_" \o ToString(n) \o ".html"

\* mutant: the writer opens its file whatever the data
WritesFileAlways(data) == TRUE

\* lines 387 and 412: the writers return at once on no data
WritesFile(data) == data # << >>

\* lines 387-402 and 412-421: a writer leaves its file, unless it had no
\* data or could not open the file (IOError / Exception, caught and logged)
FilesAfterWriter(fs, data, filename, opened) ==
    IF WritesFile(data) /\ opened THEN fs \cup { filename } ELSE fs

\* line 475: if antenna_data
MainSaves(antenna_data) == antenna_data # << >>

driver_vars == << caller, debug, max_pages, municipality_name, search_page, site,
                  pc, municipality_value, search_data, page_num, all_antennas,
                  result, gets, posts, post_failed, sleeps, files, writer_calls >>

doc_vars == << doc, doc_page, doc_antennas, doc_next >>

pure_vars == << header_row, header_map, row_cells, row_out, doc_vars >>

\* no document is under test
DocIdle ==
    /\ doc = << >>
    /\ doc_page = 0
    /\ doc_antennas = << >>
    /\ doc_next = None

\* no header row or data row is under test
RowIdle ==
    /\ header_row = << >>
    /\ header_map = << >>
    /\ row_cells = << >>
    /\ row_out = << >>

PureIdle == RowIdle /\ DocIdle

\* the state before main() / the library user calls search_municipality
InitDriver(sites, search_pages, names) ==
    /\ caller \in { "main", "list", "library" }
    /\ debug \in BOOLEAN
    /\ max_pages \in MaxPagesValues
    /\ municipality_name \in names
    \* main --list reads neither --max-pages nor the name (lines 454-460)
    /\ caller = "list" => max_pages = Nothing /\ municipality_name = << >>
    /\ search_page \in search_pages
    /\ site \in sites
    /\ pc = "start"
    /\ municipality_value = None
    /\ search_data = << >>
    /\ page_num = 0
    /\ all_antennas = << >>
    /\ result = << >>
    /\ gets = 0
    /\ posts = << >>
    /\ post_failed = FALSE
    /\ sleeps = 0
    /\ files = { }
    /\ writer_calls = { }
    /\ PureIdle

\* every site, one search page, few names; the empty name is asked through
\* the CLI only (InitForm draws it for both callers)
Init ==
    /\ InitDriver(Sites, FewSearchPages, FewNames)
    /\ municipality_name = << >> => caller # "library"

InitForm == InitDriver(FewSites, SearchPages, Names)

\* search_municipality returns r
Return(r) ==
    /\ result' = r
    /\ pc' = "returned"

\* line 462: if not args.municipality
MainRejects(name) == name = << >>

\* lines 454-456: main --list builds the scraper; get_municipality_options
\* issues its GET
ListOptions ==
    /\ pc = "start"
    /\ caller = "list"
    /\ gets' = gets + 1
    /\ pc' = "list_get"
    /\ UNCHANGED << caller, debug, max_pages, municipality_name, search_page,
                    site, municipality_value, search_data, page_num,
                    all_antennas, result, posts, post_failed, sleeps, files,
                    writer_calls, pure_vars >>

\* lines 456-460: the GET ends (ok or not), the names are printed and main
\* returns
ListDone ==
    /\ pc = "list_get"
    /\ pc' = "exit"
    /\ UNCHANGED << caller, debug, max_pages, municipality_name, search_page,
                    site, municipality_value, search_data, page_num,
                    all_antennas, result, gets, posts, post_failed, sleeps,
                    files, writer_calls, pure_vars >>

\* lines 462-463: main refuses a missing or empty name: parser.error ends
\* the run (SystemExit(2)) before EETTScraper is built
UsageError ==
    /\ pc = "start"
    /\ caller = "main"
    /\ MainRejects(municipality_name)
    /\ pc' = "usage_error"
    /\ UNCHANGED << caller, debug, max_pages, municipality_name, search_page,
                    site, municipality_value, search_data, page_num,
                    all_antennas, result, gets, posts, post_failed, sleeps,
                    files, writer_calls, pure_vars >>

\* search_municipality is called (by main at line 473, past the check of
\* line 462): get_municipality_options issues its GET
Search ==
    /\ pc = "start"
    /\ caller # "list"
    /\ caller = "main" => ~ MainRejects(municipality_name)
    /\ gets' = gets + 1
    /\ pc' = "get_options"
    /\ UNCHANGED << caller, debug, max_pages, municipality_name, search_page,
                    site, municipality_value, search_data, page_num,
                    all_antennas, result, posts, post_failed, sleeps, files,
                    writer_calls, pure_vars >>

\* lines 109-110: the options GET ends (ok or not); the name is resolved
Resolve(ok) ==
    /\ pc = "get_options"
    /\ municipality_value' =
          _find_municipality_value(municipality_name,
                                   get_municipality_options(ok, search_page))
    /\ pc' = "resolved"
    /\ UNCHANGED << caller, debug, max_pages, municipality_name, search_page,
                    site, search_data, page_num, all_antennas, result, gets,
                    posts, post_failed, sleeps, files, writer_calls,
                    pure_vars >>

\* lines 112-115: no option matches; [] is returned
NotFound ==
    /\ pc = "resolved"
    /\ municipality_value = None
    /\ Return(<< >>)
    /\ UNCHANGED << caller, debug, max_pages, municipality_name, search_page,
                    site, municipality_value, search_data, page_num,
                    all_antennas, gets, posts, post_failed, sleeps, files,
                    writer_calls, pure_vars >>

\* lines 118, 143: found; _prepare_search_data issues its GET
FetchForm ==
    /\ pc = "resolved"
    /\ municipality_value # None
    /\ gets' = gets + 1
    /\ pc' = "get_form"
    /\ UNCHANGED << caller, debug, max_pages, municipality_name, search_page,
                    site, municipality_value, search_data, page_num,
                    all_antennas, result, posts, post_failed, sleeps, files,
                    writer_calls, pure_vars >>

\* lines 118, 143-167: the form GET ends (ok or not); search_data is the
\* form, or None
Prepare(ok) ==
    /\ pc = "get_form"
    /\ search_data' = IF ok
                      THEN _prepare_search_data(municipality_value, search_page)
                      ELSE << >>
    /\ pc' = "prepared"
    /\ UNCHANGED << caller, debug, max_pages, municipality_name, search_page,
                    site, municipality_value, page_num, all_antennas, result,
                    gets, posts, post_failed, sleeps, files, writer_calls,
                    pure_vars >>

\* lines 119-120: no form; [] is returned
FormFailed ==
    /\ pc = "prepared"
    /\ search_data = << >>
    /\ Return(<< >>)
    /\ UNCHANGED << caller, debug, max_pages, municipality_name, search_page,
                    site, municipality_value, search_data, page_num,
                    all_antennas, gets, posts, post_failed, sleeps, files,
                    writer_calls, pure_vars >>

\* lines 122, 171-172: _scrape_all_pages starts
StartScrape ==
    /\ pc = "prepared"
    /\ search_data # << >>
    /\ page_num' = 1
    /\ all_antennas' = << >>
    /\ pc' = "loop"
    /\ UNCHANGED << caller, debug, max_pages, municipality_name, search_page,
                    site, municipality_value, search_data, result, gets,
                    posts, post_failed, sleeps, files, writer_calls,
                    pure_vars >>

\* lines 175-176, 217-218: the max_pages bound ends the loop
StopAtMaxPages ==
    /\ pc = "loop"
    /\ MaxPagesReached(max_pages, page_num)
    /\ Return(all_antennas)
    /\ UNCHANGED << caller, debug, max_pages, municipality_name, search_page,
                    site, municipality_value, search_data, page_num,
                    all_antennas, gets, posts, post_failed, sleeps, files,
                    writer_calls, pure_vars >>

\* lines 178-185, 223: the request for page_num is POSTed
PostPage ==
    /\ pc = "loop"
    /\ ~ MaxPagesReached(max_pages, page_num)
    /\ posts' = Append(posts, CurrentSearchData(search_data, page_num))
    /\ pc' = "post"
    /\ UNCHANGED << caller, debug, max_pages, municipality_name, search_page,
                    site, municipality_value, search_data, page_num,
                    all_antennas, result, gets, post_failed, sleeps, files,
                    writer_calls, pure_vars >>

\* lines 233-235: the POST fails at the transport level;
\* _make_search_request returns None
PageFails ==
    /\ pc = "post"
    /\ post_failed' = TRUE
    /\ pc' = "failed"
    /\ UNCHANGED << caller, debug, max_pages, municipality_name, search_page,
                    site, municipality_value, search_data, page_num,
                    all_antennas, result, gets, posts, sleeps, files,
                    writer_calls, pure_vars >>

\* lines 186-187, 217-218: the loop breaks and all_antennas is returned
ReturnAfterFailure ==
    /\ pc = "failed"
    /\ Return(ResultAfterFailure(all_antennas))
    /\ UNCHANGED << caller, debug, max_pages, municipality_name, search_page,
                    site, municipality_value, search_data, page_num,
                    all_antennas, gets, posts, post_failed, sleeps, files,
                    writer_calls, pure_vars >>

\* lines 238-245: _save_debug_response leaves its file, unless open()
\* failed (IOError, caught at line 244)
FilesAfterDebug(fs, d, n, opened) ==
    IF SavesDebug(d, n) /\ opened THEN fs \cup { DebugFile(n) } ELSE fs

\* mutant: the delay comes before the pagination check
DelayedAlways(has_next) == TRUE

\* lines 207-211: time.sleep(1) is reached only when _has_next_page
\* returned True
Delayed(has_next) == has_next = "True"

\* lines 189-211: the POST succeeds; the page is parsed. An empty page ends
\* the scrape; otherwise its records are added and _has_next_page decides:
\* it returns False (the scrape returns), returns True (the next page, after
\* the delay) or raises ValueError, which nothing catches before main
\* (lines 515-520): search_municipality returns nothing
PageArrives ==
    /\ pc = "post"
    /\ LET soup == Served(site, page_num)
           antennas_on_page == _parse_results(soup)
           has_next == _has_next_page(soup, page_num)
       IN  /\ \E opened \in BOOLEAN :
                 files' = FilesAfterDebug(files, debug, page_num, opened)
           /\ IF PageIsEmpty(antennas_on_page)
              THEN /\ Return(all_antennas)
                   /\ UNCHANGED << all_antennas, page_num, sleeps >>
              ELSE /\ all_antennas' = Extend(all_antennas, antennas_on_page)
                   /\ sleeps' = IF Delayed(has_next) THEN sleeps + 1 ELSE sleeps
                   /\ IF has_next = ValueError
                      THEN /\ pc' = "raised"
                           /\ UNCHANGED << page_num, result >>
                      ELSE IF has_next = "False"
                      THEN /\ Return(all_antennas')
                           /\ UNCHANGED page_num
                      ELSE /\ page_num' = page_num + 1
                           /\ pc' = "sleep"
                           /\ result' = result
    /\ UNCHANGED << caller, debug, max_pages, municipality_name, search_page,
                    site, municipality_value, search_data, gets, posts,
                    post_failed, writer_calls, pure_vars >>

\* line 211: time.sleep(1) ends
Wake ==
    /\ pc = "sleep"
    /\ pc' = "loop"
    /\ UNCHANGED << caller, debug, max_pages, municipality_name, search_page,
                    site, municipality_value, search_data, page_num,
                    all_antennas, result, gets, posts, post_failed, sleeps,
                    files, writer_calls, pure_vars >>

\* a user interrupt (KeyboardInterrupt) while main parses its arguments
\* (lines 427-463, before parser.error too), between two steps of main
\* --list (lines 454-460) or between two steps of search_municipality (from
\* line 106 on): under main's try it is handled at lines 512-514; before
\* the try of line 471, and for a library user, the exception is the
\* caller's
Interrupt ==
    /\ pc \in { "start", "list_get", "get_options", "resolved", "get_form",
                "prepared", "loop", "post", "failed", "sleep" }
    /\ pc' = "interrupted"
    /\ UNCHANGED << caller, debug, max_pages, municipality_name, search_page,
                    site, municipality_value, search_data, page_num,
                    all_antennas, result, gets, posts, post_failed, sleeps,
                    files, writer_calls, pure_vars >>

\* a user interrupt inside lines 189-211, the response of page_num having
\* arrived: at line 193 (past the debug save), at line 205 (the records of
\* the page added) or at line 211 (page_num advanced, time.sleep not yet
\* entered)
InterruptPage ==
    /\ pc = "post"
    /\ LET soup == Served(site, page_num)
           antennas_on_page == _parse_results(soup)
       IN  \E opened \in BOOLEAN, line \in { 193, 205, 211 } :
              /\ line >= 205 => ~ PageIsEmpty(antennas_on_page)
              /\ line = 211 => _has_next_page(soup, page_num) = "True"
              /\ files' = FilesAfterDebug(files, debug, page_num, opened)
              /\ all_antennas' = IF line >= 205
                                 THEN Extend(all_antennas, antennas_on_page)
                                 ELSE all_antennas
              /\ page_num' = IF line = 211 THEN page_num + 1 ELSE page_num
    /\ pc' = "interrupted"
    /\ UNCHANGED << caller, debug, max_pages, municipality_name, search_page,
                    site, municipality_value, search_data, result, gets,
                    posts, post_failed, sleeps, writer_calls, pure_vars >>

\* lines 505-510: main has no data and writes nothing
MainNoData ==
    /\ pc = "returned"
    /\ caller = "main"
    /\ ~ MainSaves(result)
    /\ pc' = "exit"
    /\ UNCHANGED << caller, debug, max_pages, municipality_name, search_page,
                    site, municipality_value, search_data, page_num,
                    all_antennas, result, gets, posts, post_failed, sleeps,
                    files, writer_calls, pure_vars >>

\* save_to_csv(result, antennas_<name>.csv): by main at line 485, or by a
\* library user with whatever search_municipality returned
SaveToCsv ==
    /\ pc = "returned"
    /\ caller = "main" => MainSaves(result)
    /\ writer_calls' = writer_calls \cup { "save_to_csv" }
    /\ \E opened \in BOOLEAN :
          files' = FilesAfterWriter(files, result, "antennas.csv", opened)
    /\ pc' = "csv_done"
    /\ UNCHANGED << caller, debug, max_pages, municipality_name, search_page,
                    site, municipality_value, search_data, page_num,
                    all_antennas, result, gets, posts, post_failed, sleeps,
                    pure_vars >>

\* save_to_excel(result, antennas_<name>.xlsx): line 486
SaveToExcel ==
    /\ pc = "csv_done"
    /\ writer_calls' = writer_calls \cup { "save_to_excel" }
    /\ \E opened \in BOOLEAN :
          files' = FilesAfterWriter(files, result, "antennas.xlsx", opened)
    /\ pc' = IF caller = "main" THEN "summary" ELSE "exit"
    /\ UNCHANGED << caller, debug, max_pages, municipality_name, search_page,
                    site, municipality_value, search_data, page_num,
                    all_antennas, result, gets, posts, post_failed, sleeps,
                    pure_vars >>

\* lines 488-503: main prints the summary and ends
MainSummary ==
    /\ pc = "summary"
    /\ pc' = "exit"
    /\ UNCHANGED << caller, debug, max_pages, municipality_name, search_page,
                    site, municipality_value, search_data, page_num,
                    all_antennas, result, gets, posts, post_failed, sleeps,
                    files, writer_calls, pure_vars >>

\* a user interrupt after search_municipality has returned (lines 475-510,
\* handled at lines 512-514; a library user's own code likewise): it
\* strikes outside the writers, or inside save_to_csv / save_to_excel
\* before the file is opened, or once it is opened (lines 394 and 418),
\* which leaves the file on disk, complete or not
InterruptSaving ==
    /\ pc \in { "returned", "csv_done", "summary" }
    /\ \E at \in { "outside", "called", "opened" } :
          /\ at # "outside" => /\ pc # "summary"
                               /\ caller = "main" => MainSaves(result)
          /\ at = "opened" => WritesFile(result)
          /\ files' = IF at # "opened" THEN files
                      ELSE IF pc = "returned"
                      THEN files \cup { "antennas.csv" }
                      ELSE files \cup { "antennas.xlsx" }
          /\ writer_calls' = IF at = "outside" THEN writer_calls
                             ELSE IF pc = "returned"
                             THEN writer_calls \cup { "save_to_csv" }
                             ELSE writer_calls \cup { "save_to_excel" }
    /\ pc' = "interrupted_saving"
    /\ UNCHANGED << caller, debug, max_pages, municipality_name, search_page,
                    site, municipality_value, search_data, page_num,
                    all_antennas, result, gets, posts, post_failed, sleeps,
                    pure_vars >>

Next ==
    \/ ListOptions
    \/ ListDone
    \/ UsageError
    \/ Search
    \/ \E ok \in BOOLEAN : Resolve(ok)
    \/ NotFound
    \/ FetchForm
    \/ \E ok \in BOOLEAN : Prepare(ok)
    \/ FormFailed
    \/ StartScrape
    \/ StopAtMaxPages
    \/ PostPage
    \/ PageFails
    \/ ReturnAfterFailure
    \/ PageArrives
    \/ Wake
    \/ Interrupt
    \/ InterruptPage
    \/ InterruptSaving
    \/ MainNoData
    \/ SaveToCsv
    \/ SaveToExcel
    \/ MainSummary

Spec == Init /\ [][Next]_vars

\* the same program on few sites and every search page and name
SpecForm == InitForm /\ [][Next]_vars

----------------------------------------------------------------------------
(* The claims about the driver *)

\* search_municipality has returned
Done == pc \in { "returned", "csv_done", "summary", "interrupted_saving" }
            \/ (pc = "exit" /\ caller # "list")

\* _scrape_all_pages was called and has returned
ScrapeDone == Done /\ page_num >= 1

\* the records of result page n, and whether it reports a further page
RecordsOf(n) == _parse_results(Served(site, n))
ReportsNext(n) == _has_next_page(Served(site, n), n) = "True"

\* the records of pages 1..k, in page order
RecordsUpTo(k) == Concat([ n \in 1 .. k |-> RecordsOf(n) ])

\* what the pagination control of a page shows, whatever the detector
\* makes of it

\* (a) the item is titled with a "next" term and is not marked disabled
TitledNextEnabled(li) ==
    /\ "title" \in DOMAIN li.attrs
    /\ \E i \in DOMAIN li.attrs.title : li.attrs.title[i] \in { EPOMENI, NEXT_EN }
    /\ "class" \in DOMAIN li.attrs => "disabled" \notin li.attrs.class

\* (b) the visible text of the link is a page number greater than p
NumberedAfter(a, p) ==
    LET text == Strip(a.text)
    IN  IsDecimal(text) /\ PyInt(text) > p

\* the numbers the click-action of the link assigns to startPage, in order
Assigned(a) ==
    IF "onclick" \notin DOMAIN a.attrs THEN << >>
    ELSE LET onclick == a.attrs.onclick
         IN  Concat([ q \in DOMAIN onclick |->
                        IF StartPageGroupAt(onclick, q) = << >> THEN << >>
                        ELSE << PyInt(StartPageGroupAt(onclick, q)) >> ])

\* the number a text of digit characters shows, a superscript two being
\* read as 2
RECURSIVE ShownInt(_)
ShownInt(s) ==
    IF s = << >> THEN 0
    ELSE 10 * ShownInt(SubSeq(s, 1, Len(s) - 1))
           + (IF s[Len(s)] = SUPERSCRIPT_TWO THEN 2 ELSE DigitValue(s[Len(s)]))

\* the link leads to a page number greater than p: by the number its text
\* shows or by a number its click-action assigns to startPage
LinksAfter(a, p) ==
    \/ IsDigit(Strip(a.text)) /\ ShownInt(Strip(a.text)) > p
    \/ \E n \in DOMAIN Assigned(a) : Assigned(a)[n] > p

\* the pagination control of the page has no enabled "next" item and no
\* link to a page number greater than p
ShowsNoFurtherPage(soup, p) ==
    \/ soup.pagination = Nothing
    \/ \A i \in DOMAIN The(soup.pagination) :
          LET li == The(soup.pagination)[i]
          IN  /\ ~ TitledNextEnabled(li)
              /\ \A n \in DOMAIN li.links : ~ LinksAfter(li.links[n], p)

\* pages 1..k-1 yield records and report a next page; page k yields records
\* and its control has no enabled "next" item and no link to a page number
\* greater than k
EndsAt(k) ==
    /\ \A n \in 1 .. (k - 1) : RecordsOf(n) # << >> /\ ReportsNext(n)
    /\ RecordsOf(k) # << >> /\ ShowsNoFurtherPage(Served(site, k), k)

\* max_pages does not end the scrape before page k is requested
NotCutBefore(k) == \A n \in 1 .. k : ~ MaxPagesReached(max_pages, n)

\* C1 as stated: when the result pages end at page k, _scrape_all_pages
\* never issues more than k requests and does not raise, and when it has
\* returned, no request having failed and max_pages not having cut it
\* short, it has issued exactly k requests and returns the records of
\* pages 1..k in page order, then row order
C1_PaginationTerminates ==
    \A k \in 1 .. MaxPage :
        EndsAt(k)
            => /\ Len(posts) <= k
               /\ pc # "raised"
               /\ ScrapeDone /\ ~ post_failed /\ NotCutBefore(k)
                      => Len(posts) = k /\ result = RecordsUpTo(k)

\* C2 as stated: with max_pages = m, an integer >= 0, at most m requests
\* are POSTed to the results endpoint
C2_MaxPagesBound ==
    max_pages # Nothing => Len(posts) <= The(max_pages)

\* C3: when page 1 yields no record, no request follows the first one and
\* search_municipality returns the empty list
C3_EmptyFirstPage ==
    RecordsOf(1) = << >>
        => /\ Len(posts) <= 1
           /\ Done => result = << >>

\* page 1 was fetched, has no record and an enabled "next" item; the scrape
\* returned
C3_Witness ==
    /\ ScrapeDone /\ ~ post_failed
    /\ RecordsOf(1) = << >> /\ ReportsNext(1)
    /\ Len(posts) = 1
    /\ result = << >>

\* C4: once the request for page n has failed, the scrape does not raise
\* and issues no further request (it is past its loop, n requests issued),
\* what it holds is the records of pages 1..n-1, and what it returns is
\* exactly these
C4_PartialResults ==
    post_failed
        => /\ pc \notin { "loop", "post", "sleep", "raised" }
           /\ page_num = Len(posts)
           /\ all_antennas = RecordsUpTo(Len(posts) - 1)
           /\ Done => result = RecordsUpTo(Len(posts) - 1)

\* the request for page 2 failed after a page of records, and the scrape
\* has returned these
C4_Witness ==
    /\ post_failed
    /\ Done
    /\ Len(posts) = 2
    /\ result # << >>
    /\ result = RecordsOf(1)

\* the catalog the options page defines
Catalog == get_municipality_options(TRUE, search_page)

NoEntryMatches ==
    \A i \in DOMAIN Catalog : ~ NameMatches(municipality_name, Catalog[i][1])

Resolved ==
    /\ caller # "list"
    /\ pc \notin { "start", "usage_error", "get_options", "interrupted" }

\* C5: when no catalog entry matches the name (or the options fetch fails)
\* the name resolves to None, no POST and no second GET is issued and []
\* is returned; when the form fetch fails no POST is issued and [] is
\* returned
C5_FailedIssuesNoSearch ==
    /\ Resolved /\ NoEntryMatches => municipality_value = None
    /\ municipality_value = None => posts = << >> /\ gets <= 1
    /\ Done /\ municipality_value = None => result = << >> /\ gets = 1
    /\ search_data = << >> => posts = << >>
    /\ Done /\ search_data = << >> => result = << >>

\* a name that no entry of a non-empty catalog matches was searched for
C5_Witness ==
    /\ Done
    /\ Catalog # << >> /\ NoEntryMatches
    /\ municipality_value = None
    /\ gets = 1 /\ posts = << >> /\ result = << >>

\* the named hidden fields of the search page
HiddenNames ==
    { AttrGet(search_page.hidden[i], "name", "") : i \in DOMAIN search_page.hidden }
        \ { "" }

\* the values of the hidden inputs of a name
HiddenValues(name) ==
    { AttrGet(search_page.hidden[i], "value", "") :
        i \in { j \in DOMAIN search_page.hidden :
                  AttrGet(search_page.hidden[j], "name", "") = name } }

\* the value of the last hidden input of a name
LastHiddenValue(name) ==
    LET at == { j \in DOMAIN search_page.hidden :
                  AttrGet(search_page.hidden[j], "name", "") = name }
    IN  AttrGet(search_page.hidden[Max(at)], "value", "")

PerRequest == { "startPage", "myAction" }

FixedValue(name) ==
    CASE name = "address" -> ""
      [] name = "municipality" -> municipality_value
      [] name = "siteId" -> ""

\* a payload without its per-request fields
BaseOf(payload) == SelectSeq(payload, LAMBDA kv : kv[1] \notin PerRequest)

\* C6 as stated: the i-th POST carries startPage = i, myAction = 'search'
\* for i = 1 and 'page' otherwise, address = '', municipality = the
\* resolved value, siteId = '' and every named hidden field with its value
C6_Original ==
    \A i \in DOMAIN posts :
        /\ DictGet(posts[i], "startPage") = ToString(i)
        /\ DictGet(posts[i], "myAction") = (IF i = 1 THEN "search" ELSE "page")
        /\ \A name \in { "address", "municipality", "siteId" } :
              DictGet(posts[i], name) = FixedValue(name)
        /\ \A name \in HiddenNames :
              /\ DictHas(posts[i], name)
              /\ \A v \in HiddenValues(name) : DictGet(posts[i], name) = v
        /\ BaseOf(posts[i]) = BaseOf(posts[1])

\* C6 (amended): the i-th POST carries startPage = i and myAction as stated;
\* every named hidden field other than startPage and myAction, with the
\* value of the last hidden input of that name; and address = '',
\* municipality = the resolved value, siteId = '' unless a hidden field has
\* that name; apart from startPage and myAction the POSTs are identical
C6_PayloadContract ==
    \A i \in DOMAIN posts :
        /\ DictGet(posts[i], "startPage") = ToString(i)
        /\ DictGet(posts[i], "myAction") = (IF i = 1 THEN "search" ELSE "page")
        /\ \A name \in { "address", "municipality", "siteId" } \ HiddenNames :
              DictGet(posts[i], name) = FixedValue(name)
        /\ \A name \in HiddenNames \ PerRequest :
              /\ DictHas(posts[i], name)
              /\ DictGet(posts[i], name) = LastHiddenValue(name)
        /\ DictKeys(posts[i]) =
              { "address", "municipality", "siteId" } \cup HiddenNames
                  \cup PerRequest
        /\ BaseOf(posts[i]) = BaseOf(posts[1])

\* two requests were POSTed for a search page with hidden fields
C6_Witness ==
    /\ Len(posts) = 2
    /\ HiddenNames \ PerRequest # { }
    /\ DictGet(posts[2], "myAction") = "page"
    /\ DictGet(posts[2], "municipality") = municipality_value

OutputFiles == { "antennas.csv", "antennas.xlsx" }

\* C9 as stated: no file is created or written before search_municipality
\* has returned, in every configuration
C9_Original == ~ Done => files = { }

\* C9 (amended): before search_municipality has returned no output file is
\* written; without debug mode no file at all; in debug mode the only files
\* are the raw responses of pages 1 and 2
C9_NoOutputBeforeReturn ==
    ~ Done => /\ files \cap OutputFiles = { }
              /\ ~ debug => files = { }
              /\ files \subseteq { DebugFile(1), DebugFile(2) }

\* an interrupt during the third page of a scrape in debug mode
C9_Witness ==
    /\ pc = "interrupted"
    /\ debug
    /\ Len(posts) = 3
    /\ all_antennas # << >>
    /\ files = { DebugFile(1), DebugFile(2) }

\* C10: a writer called with no records opens no file, and main calls no
\* writer when the result is empty
C10_SkipOnEmpty ==
    /\ result = << >> => files \cap OutputFiles = { }
    /\ Done /\ caller = "main" /\ result = << >> => writer_calls = { }

\* a library user passed an empty result to both writers
C10_Witness ==
    /\ pc = "exit"
    /\ caller = "library"
    /\ result = << >>
    /\ writer_calls = { "save_to_csv", "save_to_excel" }
    /\ files \cap OutputFiles = { }

\* the number of result pages whose response has been parsed
Parsed == Len(posts) - (IF pc = "post" \/ post_failed THEN 1 ELSE 0)

\* C13 as stated: once the scrape has returned, the number of delays is
\* the number of pages that yielded records
C13_Original ==
    ScrapeDone
        => sleeps = Cardinality({ n \in 1 .. Parsed : RecordsOf(n) # << >> })

\* C13, amended: the driver waits after a page exactly when the page
\* yielded records and the detector reported a further page; at every
\* moment of an uninterrupted run the number of delays is the number of
\* parsed pages that yielded records and reported a further page
C13_DelayOnlyBeforeNextPage ==
    pc # "interrupted"
        => sleeps = Cardinality({ n \in 1 .. Parsed :
                                    RecordsOf(n) # << >> /\ ReportsNext(n) })

\* a scrape of two pages with records, the second reporting no further
\* page, has returned after one delay
C13_Witness ==
    /\ ScrapeDone /\ ~ post_failed
    /\ Len(posts) = 2
    /\ RecordsOf(1) # << >> /\ ReportsNext(1)
    /\ RecordsOf(2) # << >> /\ ~ ReportsNext(2)
    /\ sleeps = 1

----------------------------------------------------------------------------
(* The Header Mapper and the Row Extractor on drawn inputs *)

DriverIdle ==
    /\ caller = "library"
    /\ debug = FALSE
    /\ max_pages = Nothing
    /\ municipality_name = << >>
    /\ search_page = SearchPage(Nothing, << >>)
    /\ site = << >>
    /\ municipality_value = None
    /\ search_data = << >>
    /\ page_num = 0
    /\ all_antennas = << >>
    /\ result = << >>
    /\ gets = 0
    /\ posts = << >>
    /\ post_failed = FALSE
    /\ sleeps = 0
    /\ files = { }
    /\ writer_calls = { }

\* the texts of header cells: the six labels, a cell without any label and
\* a cell with two labels ('Διεύθυνση / Δήμος')
HeaderTexts ==
    { << KOD, THESIS_LOWER >>, << ETAIRIA >>, << DIEFTHYNSI >>, << DIMOS >>,
      << KATIGORIA >>, << KOD, THESIS_UPPER >>, << "A/A" >>,
      << DIEFTHYNSI, "/", DIMOS >> }

SeqsUpTo(S, n) == UNION { [ 1 .. k -> S ] : k \in 0 .. n }

HeaderRows == SeqsUpTo({ Th(t) : t \in HeaderTexts }, MaxCols)

InitHeader ==
    /\ header_row \in HeaderRows
    /\ header_map = << >>
    /\ row_cells = << >>
    /\ row_out = << >>
    /\ pc = "header_input"
    /\ DriverIdle
    /\ DocIdle

\* _map_table_headers is applied to the row
MapHeaders ==
    /\ pc = "header_input"
    /\ header_map' = _map_table_headers(header_row)
    /\ pc' = "header_mapped"
    /\ UNCHANGED << caller, debug, max_pages, municipality_name, search_page,
                    site, municipality_value, search_data, page_num,
                    all_antennas, result, gets, posts, post_failed, sleeps,
                    files, writer_calls, header_row, row_cells, row_out,
                    doc_vars >>

NextHeader == MapHeaders

SpecHeader == InitHeader /\ [][NextHeader]_vars

\* the valid HeaderMaps over the columns 0 .. MaxCells - 1: each is the map
\* of a header row of MaxCells cells
HeaderMaps ==
    UNION { { m \in [ required_headers \cup opt -> 0 .. (MaxCells - 1) ] :
                \A f, g \in DOMAIN m : f # g => m[f] # m[g] } :
            opt \in SUBSET { "sequence", "category" } }

\* the data rows: n <td> cells, or a <th> and then n - 1 <td> cells
DataRows ==
    { DataRow("r", n) : n \in 0 .. (MaxCells + 1) }
        \cup { << Th(<< "r", "h" >>) >> \o DataRow("r", n - 1) :
                 n \in 1 .. (MaxCells + 1) }

InitRow ==
    /\ header_row = << >>
    /\ header_map \in HeaderMaps
    /\ row_cells \in DataRows
    /\ row_out = << >>
    /\ pc = "row_input"
    /\ DriverIdle
    /\ DocIdle

\* lines 273-276: one iteration of the row loop
ParseOneRow ==
    /\ pc = "row_input"
    /\ row_out' = ParseRow(row_cells, header_map)
    /\ pc' = "row_parsed"
    /\ UNCHANGED << caller, debug, max_pages, municipality_name, search_page,
                    site, municipality_value, search_data, page_num,
                    all_antennas, result, gets, posts, post_failed, sleeps,
                    files, writer_calls, header_row, header_map, row_cells,
                    doc_vars >>

NextRow == ParseOneRow

SpecRow == InitRow /\ [][NextRow]_vars

\* the permutations of 1 .. n, for n up to the longest header row
Perms == [ n \in 0 .. (MaxCols + 1) |->
             { p \in [ 1 .. n -> 1 .. n ] : \A j \in 1 .. n : \E i \in 1 .. n : p[i] = j } ]

\* the row whose cell i is cell p[i] of row
Permute(row, p) == [ i \in DOMAIN row |-> row[p[i]] ]

\* the label of a required field is among the cells of the row
LabelPresent(row, field) ==
    \E i \in DOMAIN row :
        LET text == Strip(row[i].text)
        IN  CASE field = "position_code" ->
                    Contains(text, KOD) /\ Contains(text, THESIS_LOWER)
              [] field = "company" -> Contains(text, ETAIRIA)
              [] field = "address" -> Contains(text, DIEFTHYNSI)
              [] field = "municipality" -> Contains(text, DIMOS)

\* the cells of the row that set the field
CellsOf(row, field) ==
    { i \in DOMAIN row : HeaderField(Strip(row[i].text)) = field }

\* the map m2 of the row permuted by p sends each field to the new place of
\* the cell that carried it in the map m of the row
Follows(m2, m, p) ==
    /\ DOMAIN m2 = DOMAIN m
    /\ \A f \in DOMAIN m : p[m2[f] + 1] = m[f] + 1

MapFollows(row, m, p) == Follows(_map_table_headers(Permute(row, p)), m, p)

\* no two cells of the row set the same field
NoFieldTwice(row) ==
    \A i, j \in DOMAIN row :
        i # j /\ HeaderField(Strip(row[i].text)) = HeaderField(Strip(row[j].text))
            => HeaderField(Strip(row[i].text)) = None

\* C7 as stated: for every permutation of the header cells the HeaderMap
\* follows the cells, and the header is valid if and only if the four
\* required labels are all among the cells
C7_Original ==
    pc = "header_mapped"
        => /\ \A p \in Perms[Len(header_row)] : MapFollows(header_row, header_map, p)
           /\ _validate_header_map(header_map)
                  <=> \A f \in required_headers : LabelPresent(header_row, f)

\* C7 (amended): when no two cells of the row set the same field, the
\* HeaderMap of every permutation follows the cells and is valid exactly
\* when the HeaderMap of the row is; and for every row the header is valid
\* if and only if each required field is set by a cell, wherever the cell
\* is, a cell setting the field of the first rule its text matches
C7_HeaderOrderIndependent ==
    pc = "header_mapped"
        => /\ NoFieldTwice(header_row)
                  => \A p \in Perms[Len(header_row)] :
                         LET m2 == _map_table_headers(Permute(header_row, p))
                         IN  /\ Follows(m2, header_map, p)
                             /\ _validate_header_map(m2)
                                    <=> _validate_header_map(header_map)
           /\ _validate_header_map(header_map)
                  <=> \A f \in required_headers : CellsOf(header_row, f) # { }

\* a valid header whose columns are not in the usual order was mapped
C7_Witness ==
    /\ pc = "header_mapped"
    /\ _validate_header_map(header_map)
    /\ header_map["municipality"] = 0
    /\ header_map["position_code"] = 2
    /\ \E p \in Perms[Len(header_row)] :
          _map_table_headers(Permute(header_row, p)) # header_map

\* C8: a data row whose <td> count does not exceed the largest index of
\* the HeaderMap gives no record; any other row gives one record, every
\* field read below the cell count, sequence and category empty when absent
C8_RowInBounds ==
    pc = "row_parsed"
        => LET cells == TdCells(row_cells)
               largest == Max({ header_map[f] : f \in DOMAIN header_map })
           IN  IF Len(cells) <= largest
               THEN row_out = << >>
               ELSE /\ Len(row_out) = 1
                    /\ \A f \in DOMAIN header_map :
                          /\ header_map[f] < Len(cells)
                          /\ row_out[1][f] = Strip(cells[header_map[f] + 1].text)
                    /\ \A f \in Fields \ DOMAIN header_map : row_out[1][f] = << >>
                    /\ \A f \in Fields : row_out[1][f] # IndexError

\* a row exactly as long as the largest index was skipped
C8_Witness ==
    /\ pc = "row_parsed"
    /\ Len(TdCells(row_cells)) = Max({ header_map[f] : f \in DOMAIN header_map })
    /\ Len(row_cells) > Len(TdCells(row_cells))
    /\ "sequence" \notin DOMAIN header_map
    /\ row_out = << >>

----------------------------------------------------------------------------
(* _parse_results, applied to drawn documents *)

\* a results table of one record
ResultsTableA == << FullHeader, DataRow("a1", 6) >>

\* a results table of another layout: a record and a row too short
ResultsTableB == << ShortHeader, DataRow("b1", 4), DataRow("b2", 2) >>

\* the tables of the drawn documents: without any row, without a header
\* label, with a valid header and no row that can be extracted (a short
\* row; no data row at all), and with records
TablesUnderTest ==
    { << >>, LayoutTable, EmptyResultsTable, << FullHeader >>,
      ResultsTableA, ResultsTableB }

DocsOfTables ==
    { [ tables |-> ts, pagination |-> Nothing ] :
        ts \in SeqsUpTo(TablesUnderTest, MaxTables) }

InitTables ==
    /\ doc \in DocsOfTables
    /\ doc_page = 0
    /\ doc_antennas = << >>
    /\ doc_next = None
    /\ pc = "tables_input"
    /\ DriverIdle
    /\ RowIdle

\* lines 247-255: _parse_results is applied to the document
ParseResults ==
    /\ pc = "tables_input"
    /\ doc_antennas' = _parse_results(doc)
    /\ pc' = "tables_parsed"
    /\ UNCHANGED << caller, debug, max_pages, municipality_name, search_page,
                    site, municipality_value, search_data, page_num,
                    all_antennas, result, gets, posts, post_failed, sleeps,
                    files, writer_calls, header_row, header_map, row_cells,
                    row_out, doc, doc_page, doc_next >>

NextTables == ParseResults

SpecTables == InitTables /\ [][NextTables]_vars

\* the first row of the table produces a valid HeaderMap
ValidHeader(table) ==
    /\ Len(table) >= 1
    /\ \A f \in required_headers : f \in DOMAIN _map_table_headers(table[1])

\* the records extracted from the rows below the header of a table
RowRecords(table) ==
    LET m == _map_table_headers(table[1])
    IN  Concat([ i \in 1 .. (Len(table) - 1) |-> ParseRow(table[i + 1], m) ])

\* the least index of a set of indices
First(indices) == CHOOSE i \in indices : \A j \in indices : i <= j

\* C11 as stated: _parse_results returns the records of the first table
\* with a valid header, even when that table yields no record, and the
\* empty list when no table has a valid header
C11_Original ==
    pc = "tables_parsed"
        => LET valid == { i \in DOMAIN doc.tables : ValidHeader(doc.tables[i]) }
           IN  doc_antennas = IF valid = { } THEN << >>
                              ELSE RowRecords(doc.tables[First(valid)])

----------------------------------------------------------------------------
(* _has_next_page, applied to drawn documents *)

\* onclick="document.f.startPage.value='<n>';submit()"
GoTo(n) == << "document.f.", START_PAGE, QUOTE, n, QUOTE, ";submit()" >>

\* the items of the drawn pagination controls
ItemsUnderTest ==
    { \* a "next" item, enabled
      Li([ title |-> << EPOMENI >> ], A(<< ">" >>, NoAttrs)),
      \* a "next" item, disabled, without a link
      LiNoA([ title |-> << NEXT_EN, "page" >>,
              class |-> { "page-item", "disabled" } ]),
      \* the links of pages 1 and 2
      Li([ class |-> { "active" } ], A(<< "1" >>, NoAttrs)),
      Li(NoAttrs, A(<< WS, "2", WS >>, NoAttrs)),
      \* a link whose text is not a number
      Li(NoAttrs, A(<< "2", "a" >>, NoAttrs)),
      \* a "last page" link that sets startPage to 3
      Li(NoAttrs, A(<< ">", ">" >>, [ onclick |-> GoTo("3") ])),
      \* a "previous" item whose link sets startPage to no number
      Li([ title |-> << "Previous" >> ],
         A(<< "<" >>, [ onclick |-> << START_PAGE, QUOTE, QUOTE >> ])),
      \* an item of two links, to page 1 and to page 3
      LiOfLinks(NoAttrs, << A(<< "1" >>, NoAttrs), A(<< "3" >>, NoAttrs) >>),
      \* a link that sets startPage twice, to 1 and then to 3
      Li(NoAttrs, A(<< "<", ">" >>, [ onclick |-> GoTo("1") \o GoTo("3") ])),
      \* a link whose text is a superscript digit
      Li(NoAttrs, A(<< SUPERSCRIPT_TWO >>, [ onclick |-> GoTo("3") ])) }

\* soup.find('ul', class_='pagination'): none, or its items
ControlsUnderTest ==
    { Nothing } \cup { Some(items) : items \in SeqsUpTo(ItemsUnderTest, MaxItems) }

DocsOfControls ==
    { [ tables |-> << >>, pagination |-> c ] : c \in ControlsUnderTest }

InitPagination ==
    /\ doc \in DocsOfControls
    /\ doc_page \in 1 .. MaxPage
    /\ doc_antennas = << >>
    /\ doc_next = None
    /\ pc = "pagination_input"
    /\ DriverIdle
    /\ RowIdle

\* lines 346-377: _has_next_page is applied to the document
HasNextPage ==
    /\ pc = "pagination_input"
    /\ doc_next' = _has_next_page(doc, doc_page)
    /\ pc' = "pagination_checked"
    /\ UNCHANGED << caller, debug, max_pages, municipality_name, search_page,
                    site, municipality_value, search_data, page_num,
                    all_antennas, result, gets, posts, post_failed, sleeps,
                    files, writer_calls, header_row, header_map, row_cells,
                    row_out, doc, doc_page, doc_antennas >>

NextPagination == HasNextPage

SpecPagination == InitPagination /\ [][NextPagination]_vars

\* C12 as stated: false without a pagination control; otherwise true if
\* and only if some item (a) is titled "next" and not disabled, or contains
\* a link (b) whose text is a page number greater than p or (c) whose
\* click-action assigns startPage a number greater than p
C12_Original ==
    pc = "pagination_checked"
        => doc_next =
             IF /\ doc.pagination # Nothing
                /\ \E i \in DOMAIN The(doc.pagination) :
                      LET li == The(doc.pagination)[i]
                      IN  \/ TitledNextEnabled(li)
                          \/ \E k \in DOMAIN li.links :
                                \/ NumberedAfter(li.links[k], doc_page)
                                \/ \E n \in DOMAIN Assigned(li.links[k]) :
                                      Assigned(li.links[k])[n] > doc_page
             THEN "True" ELSE "False"

====
